---- MODULE Spec2Model ----
\* Model of format_string.cpp: a console login that reads a username and a
\* password with fgets into two 32-byte stack buffers, looks the user up in
\* a static table, "verifies" the password with a stubbed bcrypt check and,
\* on success, prints the entered name and opens the admin panel.
\*
\* Bytes are integers 0..255 (ASCII); a C string is the sequence of bytes
\* before the first NUL; a buffer is a sequence of exactly its capacity.
EXTENDS Integers, Sequences, FiniteSets, TLC

MAX_USERNAME_LENGTH == 32
MAX_PASSWORD_LENGTH == 32
BCRYPT_HASHSIZE == 61

NUL == 0
\* '\n'
NL == 10
\* '%'
PCT == 37
\* 'a', the filler byte of the long sample lines
FILL == 97
\* '-', the byte of the horizontal rules of lines 90 and 93
DASH == 45

Min(S) == CHOOSE m \in S : \A n \in S : m <= n

Rep(c, n) == [i \in 1..n |-> c]

\* ---------------------------------------------------------------------
\* String literals of the program
\* ---------------------------------------------------------------------

\* stderr text of line 34: 'Error: Username or password is NULL.\n'
STR_ERR_NULL ==
    <<69, 114, 114, 111, 114, 58, 32, 85, 115, 101, 114, 110, 97, 109, 101, 32, 111, 114, 32, 112, 97, 115, 115, 119, 111, 114, 100, 32, 105, 115, 32, 78, 85, 76, 76, 46, 10>>

\* stderr text of line 42: 'Error: Username or password is invalid length.\n'
STR_ERR_LENGTH ==
    <<69, 114, 114, 111, 114, 58, 32, 85, 115, 101, 114, 110, 97, 109, 101, 32, 111, 114, 32, 112, 97, 115, 115, 119, 111, 114, 100, 32, 105, 115, 32, 105, 110, 118, 97, 108, 105, 100, 32, 108, 101, 110, 103, 116, 104, 46, 10>>

\* format of line 70: '<<< Welcome to admin panel >>>\n'
STR_WELCOME ==
    <<60, 60, 60, 32, 87, 101, 108, 99, 111, 109, 101, 32, 116, 111, 32, 97, 100, 109, 105, 110, 32, 112, 97, 110, 101, 108, 32, 62, 62, 62, 10>>

\* format of line 81: 'Enter username:\n'
STR_ENTER_USERNAME ==
    <<69, 110, 116, 101, 114, 32, 117, 115, 101, 114, 110, 97, 109, 101, 58, 10>>

\* format of line 85: 'Enter password:\n'
STR_ENTER_PASSWORD ==
    <<69, 110, 116, 101, 114, 32, 112, 97, 115, 115, 119, 111, 114, 100, 58, 10>>

\* format of line 91: 'Password matched, Authenticated succesfully for the user:'
STR_MATCHED ==
    <<80, 97, 115, 115, 119, 111, 114, 100, 32, 109, 97, 116, 99, 104, 101, 100, 44, 32, 65, 117, 116, 104, 101, 110, 116, 105, 99, 97, 116, 101, 100, 32, 115, 117, 99, 99, 101, 115, 102, 117, 108, 108, 121, 32, 102, 111, 114, 32, 116, 104, 101, 32, 117, 115, 101, 114, 58>>

\* format of line 96: 'Password mismatch for the user: %s\n'
FMT_MISMATCH ==
    <<80, 97, 115, 115, 119, 111, 114, 100, 32, 109, 105, 115, 109, 97, 116, 99, 104, 32, 102, 111, 114, 32, 116, 104, 101, 32, 117, 115, 101, 114, 58, 32, 37, 115, 10>>

\* format of line 106: 'Authentication failed!\n'
STR_AUTH_FAILED ==
    <<65, 117, 116, 104, 101, 110, 116, 105, 99, 97, 116, 105, 111, 110, 32, 102, 97, 105, 108, 101, 100, 33, 10>>
\* format of lines 90 and 93: "\n" 60 x "-" "\n"
STR_RULE == <<NL>> \o Rep(DASH, 60) \o <<NL>>

\* "admin"
admin ==
    <<97, 100, 109, 105, 110>>

\* "aaaaaaaa"
aaaaaaaa ==
    <<97, 97, 97, 97, 97, 97, 97, 97>>

\* "lukas"
lukas ==
    <<108, 117, 107, 97, 115>>

\* "hashed_lukasPass"
hashed_lukasPass ==
    <<104, 97, 115, 104, 101, 100, 95, 108, 117, 107, 97, 115, 80, 97, 115, 115>>

\* "greg"
greg ==
    <<103, 114, 101, 103>>

\* "hashed_gregPass"
hashed_gregPass ==
    <<104, 97, 115, 104, 101, 100, 95, 103, 114, 101, 103, 80, 97, 115, 115>>
\* struct User database[] (rows are 1-based here)
database ==
    << [username |-> admin, hashed_password |-> aaaaaaaa],
       [username |-> lukas, hashed_password |-> hashed_lukasPass],
       [username |-> greg,  hashed_password |-> hashed_gregPass] >>

\* A null pointer argument; not a sequence of bytes.
NULL == <<-1>>

\* ---------------------------------------------------------------------
\* libc primitives, as the program uses them
\* ---------------------------------------------------------------------

\* byte i (1-based) of C string s; the terminator and beyond read as NUL
At(s, i) == IF i <= Len(s) THEN s[i] ELSE NUL

\* strlen over a buffer: bytes before the first NUL (the whole storage
\* when it holds no NUL, which no reachable state of the program does)
strlen(buf) ==
    LET zs == {i \in 1..Len(buf) : buf[i] = NUL}
    IN  IF zs = {} THEN Len(buf) ELSE Min(zs) - 1

\* the C string a char* to the start of buf denotes
CStr(buf) == SubSeq(buf, 1, strlen(buf))

RECURSIVE StrncmpFrom(_, _, _, _)
StrncmpFrom(s1, s2, n, i) ==
    IF i > n THEN 0
    ELSE LET a == At(s1, i)
             b == At(s2, i)
         IN  IF a # b THEN a - b
             ELSE IF a = NUL THEN 0
             ELSE StrncmpFrom(s1, s2, n, i + 1)

\* strncmp(s1, s2, n) on C strings
strncmp(s1, s2, n) == StrncmpFrom(s1, s2, n, 1)

\* strcspn(buf, reject): length of the initial run with no byte of reject
strcspn(buf, reject) ==
    LET stops == {i \in 1..Len(buf) : buf[i] = NUL \/ buf[i] \in reject}
    IN  IF stops = {} THEN Len(buf) ELSE Min(stops) - 1

\* fgets(buf, size, stream): at most size-1 bytes, stopping after a
\* newline (which is stored), then a NUL.  At end of input with nothing
\* read it returns NULL and leaves buf untouched.
fgets(buf, size, stream) ==
    IF stream = <<>>
    THEN [buf |-> buf, rest |-> stream, null |-> TRUE]
    ELSE LET k   == IF size - 1 <= Len(stream) THEN size - 1 ELSE Len(stream)
             nls == {i \in 1..k : stream[i] = NL}
             n   == IF nls = {} THEN k ELSE Min(nls)
         IN  [buf  |-> [i \in 1..Len(buf) |->
                           IF i <= n THEN stream[i]
                           ELSE IF i = n + 1 THEN NUL
                           ELSE buf[i]],
              rest |-> SubSeq(stream, n + 1, Len(stream)),
              null |-> FALSE]

\* Rendering of a printf format.  "%%" is a percent sign; '%' followed by
\* any other byte is a conversion that takes the next argument (the
\* program's own formats use only %s).  A conversion with no argument
\* left, or a lone '%' at the end, is undefined: missing is what such a
\* conversion happens to produce, and ub records that it happened.
RECURSIVE Format(_, _, _)
Format(fmt, args, missing) ==
    LET pcts == {i \in 1..Len(fmt) : fmt[i] = PCT}
    IN  IF pcts = {} THEN [text |-> fmt, ub |-> FALSE]
        ELSE LET p    == Min(pcts)
                 lit  == SubSeq(fmt, 1, p - 1)
                 rest == SubSeq(fmt, p + 2, Len(fmt))
             IN  IF p = Len(fmt)
                 THEN [text |-> lit \o missing, ub |-> TRUE]
                 ELSE IF fmt[p + 1] = PCT
                 THEN LET r == Format(rest, args, missing)
                      IN  [text |-> lit \o <<PCT>> \o r.text, ub |-> r.ub]
                 ELSE IF args = <<>>
                 THEN LET r == Format(rest, args, missing)
                      IN  [text |-> lit \o missing \o r.text, ub |-> TRUE]
                 ELSE LET r == Format(rest, Tail(args), missing)
                      IN  [text |-> lit \o Head(args) \o r.text, ub |-> r.ub]

\* What a conversion without an argument can print: nothing, or bytes of
\* whatever memory the stray argument slot points at.
Leaks == { <<>>, <<63>>, <<63, 63, 63>> }

\* printf(fmt, args...): the outcomes the call can have.  With every
\* conversion matched the text is determined; otherwise the call prints
\* leaked bytes or the process dies in it.
printf(fmt, args) ==
    LET r == Format(fmt, args, <<>>)
    IN  IF ~r.ub
        THEN { [crash |-> FALSE, text |-> r.text] }
        ELSE { [crash |-> TRUE, text |-> <<>>] } \cup
             { [crash |-> FALSE, text |-> Format(fmt, args, g).text] : g \in Leaks }

\* ---------------------------------------------------------------------
\* Functions of the program
\* ---------------------------------------------------------------------

\* a checker that reports a mismatch
bcrypt_checkpw_mismatch(password, hash) == 1

\* bcrypt_checkpw: the stub returns 0 ("match") for every argument
bcrypt_checkpw(password, hash) == 0

\* a length test that also refuses a string one byte shorter than max
InvalidLength_short(len, max) == len = 0 \/ len >= max - 1

\* the length test of lines 40-41 for one argument
InvalidLength(len, max) == len = 0 \/ len >= max

\* the loop of lines 47-56 from row i on: the row whose stored name
\* compares equal over the stored name's length, or 0 when the loop ends
RECURSIVE FindFrom(_, _)
FindFrom(username, i) ==
    IF i > Len(database) THEN 0
    ELSE IF strncmp(database[i].username, username,
                    Len(database[i].username)) = 0
    THEN i
    ELSE FindFrom(username, i + 1)

\* verify_user_password(username, password): the return value, the text
\* sent to stderr, the number of rows compared and the row selected
verify_user_password(username, password) ==
    IF username = NULL \/ password = NULL
    THEN [ret |-> FALSE, err |-> STR_ERR_NULL, lookups |-> 0, found |-> 0]
    ELSE IF InvalidLength(Len(username), MAX_USERNAME_LENGTH) \/
            InvalidLength(Len(password), MAX_PASSWORD_LENGTH)
    THEN [ret |-> FALSE, err |-> STR_ERR_LENGTH, lookups |-> 0, found |-> 0]
    ELSE LET f == FindFrom(username, 1)
         IN  IF f = 0
             THEN [ret |-> FALSE, err |-> <<>>,
                   lookups |-> Len(database), found |-> 0]
             ELSE [ret |-> bcrypt_checkpw(password, database[f].hashed_password) = 0,
                   err |-> <<>>, lookups |-> f, found |-> f]

\* secure_zeroize(ptr, len): the first len bytes become 0
secure_zeroize(buf, len) ==
    [i \in 1..Len(buf) |-> IF i <= len THEN 0 ELSE buf[i]]

\* ---------------------------------------------------------------------
\* Inputs explored
\* ---------------------------------------------------------------------

\* longest input line explored
MaxLine == 45
\* longest argument explored when verify_user_password is called directly
MaxArgLen == 33

\* "adm"
adm ==
    <<97, 100, 109>>

\* "nouser"
nouser ==
    <<110, 111, 117, 115, 101, 114>>

\* "adminX"
adminX ==
    <<97, 100, 109, 105, 110, 88>>

\* "wrong"
wrong ==
    <<119, 114, 111, 110, 103>>

\* "x"
x ==
    <<120>>

\* "%s%s%s%s"
pct4 ==
    <<37, 115, 37, 115, 37, 115, 37, 115>>

\* "admin%s%s%s%s"
admin_pct4 ==
    <<97, 100, 109, 105, 110, 37, 115, 37, 115, 37, 115, 37, 115>>

\* "admin%%"
admin_pctpct ==
    <<97, 100, 109, 105, 110, 37, 37>>
PadTo(base, n) == base \o Rep(FILL, n - Len(base))

\* line lengths around the buffer capacity, and the longest line
LongLens ==
    {MAX_USERNAME_LENGTH - 2, MAX_USERNAME_LENGTH - 1, MAX_USERNAME_LENGTH, MaxLine}

\* contents of the first input line
NameContents ==
    { <<>>, admin, lukas, greg, adm, nouser, adminX,
      pct4, admin_pct4, admin_pctpct } \cup
    { PadTo(b, n) : b \in {<<>>, admin}, n \in LongLens }

\* contents of the second input line
PwContents ==
    { <<>>, x, wrong, aaaaaaaa, hashed_lukasPass, hashed_gregPass } \cup
    { Rep(FILL, n) : n \in {MAX_PASSWORD_LENGTH - 2, MAX_PASSWORD_LENGTH - 1,
                            MAX_PASSWORD_LENGTH} }

\* a line ends with a newline or with the end of the input
LineEnds == { <<>>, <<NL>> }

\* what standard input can hold when the program starts
InputStreams ==
    { n \o e1 \o p \o e2 :
        n \in NameContents, e1 \in LineEnds, p \in PwContents, e2 \in LineEnds }

\* what the stack holds where a buffer is allocated
Garbage(cap) == { Rep(NUL, cap), Rep(FILL, cap) }

\* arguments explored when verify_user_password is called directly
ArgNames ==
    { NULL, <<>>, admin, adminX, adm, nouser, lukas, greg, admin \o <<NL>> } \cup
    { PadTo(b, n) : b \in {<<>>, admin},
                    n \in (MAX_USERNAME_LENGTH - 2)..MaxArgLen }

ArgPasswords ==
    { NULL, <<>>, x, wrong, aaaaaaaa } \cup
    { Rep(FILL, n) : n \in (MAX_PASSWORD_LENGTH - 2)..MaxArgLen }

\* ---------------------------------------------------------------------
\* State
\* ---------------------------------------------------------------------

VARIABLES
    input,             \* everything standard input held at the start
    stdin,             \* the part of it not yet read
    entered_name,      \* storage of char entered_name[32]; <<>> outside the call
    entered_password,  \* storage of char entered_password[32]
    pc,                \* where the program is
    stdout,            \* bytes written to standard output
    stderr,            \* bytes written to standard error
    printf_fmts,       \* for each printf call, where its format came from
    verify_args,       \* arguments of the call of verify_user_password
    verify_calls,      \* number of calls of verify_user_password
    verify_ret,        \* its return value
    lookups,           \* rows of database compared by it
    found,             \* row it selected, 0 for none
    ret,               \* return value of authenticate_admin
    admin_calls        \* number of calls of admin_panel

vars == << input, stdin, entered_name, entered_password, pc, stdout, stderr,
           printf_fmts, verify_args, verify_calls, verify_ret, lookups, found,
           ret, admin_calls >>

Init ==
    /\ input \in InputStreams
    /\ stdin = input
    /\ entered_name = <<>>
    /\ entered_password = <<>>
    /\ pc = "main"
    /\ stdout = <<>>
    /\ stderr = <<>>
    /\ printf_fmts = <<>>
    /\ verify_args = <<>>
    /\ verify_calls = 0
    /\ verify_ret = FALSE
    /\ lookups = 0
    /\ found = 0
    /\ ret = FALSE
    /\ admin_calls = 0

\* main calls authenticate_admin, whose two buffers are allocated on the
\* stack without an initialiser (lines 103, 76-77)
EnterAuthenticate ==
    /\ pc = "main"
    /\ pc' = "zeroize"
    /\ entered_name' \in Garbage(MAX_USERNAME_LENGTH)
    /\ entered_password' \in Garbage(MAX_PASSWORD_LENGTH)
    /\ UNCHANGED << input, stdin, stdout, stderr, printf_fmts, verify_args,
                    verify_calls, verify_ret, lookups, found, ret, admin_calls >>

\* lines 78-79
Zeroize ==
    /\ pc = "zeroize"
    /\ entered_name' = secure_zeroize(entered_name, MAX_USERNAME_LENGTH)
    /\ entered_password' = secure_zeroize(entered_password, MAX_PASSWORD_LENGTH)
    /\ pc' = "prompt_name"
    /\ UNCHANGED << input, stdin, stdout, stderr, printf_fmts, verify_args,
                    verify_calls, verify_ret, lookups, found, ret, admin_calls >>

\* lines 81-82 (the newline is not removed: line 83 is commented out)
PromptUsername ==
    /\ pc = "prompt_name"
    /\ \E o \in printf(STR_ENTER_USERNAME, <<>>) :
         LET r == fgets(entered_name, MAX_USERNAME_LENGTH, stdin)
         IN  /\ stdout' = stdout \o o.text
             /\ entered_name' = r.buf
             /\ stdin' = r.rest
    /\ printf_fmts' = Append(printf_fmts, "literal")
    /\ pc' = "prompt_password"
    /\ UNCHANGED << input, entered_password, stderr, verify_args, verify_calls,
                    verify_ret, lookups, found, ret, admin_calls >>

\* lines 85-87
PromptPassword ==
    /\ pc = "prompt_password"
    /\ \E o \in printf(STR_ENTER_PASSWORD, <<>>) :
         LET r == fgets(entered_password, MAX_PASSWORD_LENGTH, stdin)
             k == strcspn(r.buf, {NL})
         IN  /\ stdout' = stdout \o o.text
             /\ entered_password' =
                    [i \in 1..Len(r.buf) |-> IF i = k + 1 THEN NUL ELSE r.buf[i]]
             /\ stdin' = r.rest
    /\ printf_fmts' = Append(printf_fmts, "literal")
    /\ pc' = "call_verify"
    /\ UNCHANGED << input, entered_name, stderr, verify_args, verify_calls,
                    verify_ret, lookups, found, ret, admin_calls >>

\* line 89: the two arrays are passed as C strings
CallVerify ==
    /\ pc = "call_verify"
    /\ verify_args' = << CStr(entered_name), CStr(entered_password) >>
    /\ pc' = "verify"
    /\ UNCHANGED << input, stdin, entered_name, entered_password, stdout, stderr,
                    printf_fmts, verify_calls, verify_ret, lookups, found, ret,
                    admin_calls >>

\* lines 32-58
VerifyUserPassword ==
    /\ pc = "verify"
    /\ LET v == verify_user_password(verify_args[1], verify_args[2])
       IN  /\ verify_ret' = v.ret
           /\ stderr' = stderr \o v.err
           /\ lookups' = lookups + v.lookups
           /\ found' = v.found
    /\ verify_calls' = verify_calls + 1
    /\ pc' = "verified"
    /\ UNCHANGED << input, stdin, entered_name, entered_password, stdout,
                    printf_fmts, verify_args, ret, admin_calls >>

\* lines 89-94: the success branch; the third printf takes the entered
\* name as its format
PrintGranted ==
    /\ pc = "verified"
    /\ verify_ret
    /\ \E o1 \in printf(STR_RULE, <<>>), o2 \in printf(STR_MATCHED, <<>>),
          o3 \in printf(CStr(entered_name), <<>>) :
         IF o3.crash
         THEN /\ stdout' = stdout \o o1.text \o o2.text
              /\ printf_fmts' = printf_fmts \o <<"literal", "literal", "entered_name">>
              /\ pc' = "crashed"
              /\ ret' = ret
         ELSE \E o4 \in printf(STR_RULE, <<>>) :
              /\ stdout' = stdout \o o1.text \o o2.text \o o3.text \o o4.text
              /\ printf_fmts' = printf_fmts \o
                                  <<"literal", "literal", "entered_name", "literal">>
              /\ pc' = "returned"
              /\ ret' = TRUE
    /\ UNCHANGED << input, stdin, entered_name, entered_password, stderr,
                    verify_args, verify_calls, verify_ret, lookups, found,
                    admin_calls >>

\* lines 96-97: the failure branch
PrintDenied ==
    /\ pc = "verified"
    /\ ~verify_ret
    /\ \E o \in printf(FMT_MISMATCH, << CStr(entered_name) >>) :
         stdout' = stdout \o o.text
    /\ printf_fmts' = Append(printf_fmts, "literal")
    /\ ret' = FALSE
    /\ pc' = "returned"
    /\ UNCHANGED << input, stdin, entered_name, entered_password, stderr,
                    verify_args, verify_calls, verify_ret, lookups, found,
                    admin_calls >>

\* admin_panel (lines 69-72): the banner, then the shell
admin_panel ==
    /\ \E o \in printf(STR_WELCOME, <<>>) : stdout' = stdout \o o.text
    /\ printf_fmts' = Append(printf_fmts, "literal")
    /\ admin_calls' = admin_calls + 1

\* a main that opens the panel whatever authenticate_admin returned
MainGranted_unguarded ==
    /\ pc = "returned"
    /\ admin_panel
    /\ pc' = "exit"
    /\ UNCHANGED << input, stdin, entered_name, entered_password, stderr,
                    verify_args, verify_calls, verify_ret, lookups, found, ret >>

\* lines 103-104, 109
MainGranted ==
    /\ pc = "returned"
    /\ ret
    /\ admin_panel
    /\ pc' = "exit"
    /\ UNCHANGED << input, stdin, entered_name, entered_password, stderr,
                    verify_args, verify_calls, verify_ret, lookups, found, ret >>

\* lines 105-106, 109
MainFailed ==
    /\ pc = "returned"
    /\ ~ret
    /\ \E o \in printf(STR_AUTH_FAILED, <<>>) : stdout' = stdout \o o.text
    /\ printf_fmts' = Append(printf_fmts, "literal")
    /\ pc' = "exit"
    /\ UNCHANGED << input, stdin, entered_name, entered_password, stderr,
                    verify_args, verify_calls, verify_ret, lookups, found, ret,
                    admin_calls >>

Next ==
    \/ EnterAuthenticate
    \/ Zeroize
    \/ PromptUsername
    \/ PromptPassword
    \/ CallVerify
    \/ VerifyUserPassword
    \/ PrintGranted
    \/ PrintDenied
    \/ MainGranted
    \/ MainFailed

Spec == Init /\ [][Next]_vars

\* verify_user_password called directly, on arguments of any length
VerifyInit ==
    /\ input = <<>>
    /\ stdin = <<>>
    /\ entered_name = <<>>
    /\ entered_password = <<>>
    /\ pc = "verify"
    /\ stdout = <<>>
    /\ stderr = <<>>
    /\ printf_fmts = <<>>
    /\ verify_args \in { <<u, p>> : u \in ArgNames, p \in ArgPasswords }
    /\ verify_calls = 0
    /\ verify_ret = FALSE
    /\ lookups = 0
    /\ found = 0
    /\ ret = FALSE
    /\ admin_calls = 0

VerifyNext == VerifyUserPassword

VerifySpec == VerifyInit /\ [][VerifyNext]_vars

\* ---------------------------------------------------------------------
\* Vocabulary of the properties
\* ---------------------------------------------------------------------

\* the bytes of s before its first newline
LineOf(s) ==
    LET nls == {i \in 1..Len(s) : s[i] = NL}
    IN  IF nls = {} THEN s ELSE SubSeq(s, 1, Min(nls) - 1)

\* the bytes of s after its first newline
AfterLine(s) ==
    LET nls == {i \in 1..Len(s) : s[i] = NL}
    IN  IF nls = {} THEN <<>> ELSE SubSeq(s, Min(nls) + 1, Len(s))

\* the username and the password as typed: the first two input lines
Line1 == LineOf(input)
Line2 == LineOf(AfterLine(input))

\* the input has a first line ended by a newline and then a second line
TwoLines == \E i \in 1..Len(input) : input[i] = NL

\* the typed pair is a row of the table
StoredPairEntered ==
    \E i \in 1..Len(database) :
        /\ Line1 = database[i].username
        /\ Line2 = database[i].hashed_password

\* authenticate_admin has returned to main
Returned == pc \in {"returned", "exit"}

\* both reads of authenticate_admin are done
PastReads == pc \in {"call_verify", "verify", "verified", "returned", "exit", "crashed"}

\* a whole attempt on input s, when it fails: the two reads into zeroed
\* buffers, the verification and the text of lines 42, 81, 85, 96, 106
AttemptOf(s) ==
    LET r1 == fgets(Rep(NUL, MAX_USERNAME_LENGTH), MAX_USERNAME_LENGTH, s)
        r2 == fgets(Rep(NUL, MAX_PASSWORD_LENGTH), MAX_PASSWORD_LENGTH, r1.rest)
        k  == strcspn(r2.buf, {NL})
        pw == [i \in 1..Len(r2.buf) |-> IF i = k + 1 THEN NUL ELSE r2.buf[i]]
        v  == verify_user_password(CStr(r1.buf), CStr(pw))
    IN  [failed |-> ~v.ret,
         stdout |-> STR_ENTER_USERNAME \o STR_ENTER_PASSWORD \o
                    Format(FMT_MISMATCH, << CStr(r1.buf) >>, <<>>).text \o
                    STR_AUTH_FAILED,
         stderr |-> v.err]

\* ---------------------------------------------------------------------
\* Properties
\* ---------------------------------------------------------------------

\* C1: when the typed pair is not a row of the table (unknown user, or a
\* known user with another password), verification fails, the attempt is
\* denied and admin_panel is never called.
C1_WrongPairDenied ==
    ~StoredPairEntered => (~verify_ret /\ ~ret /\ admin_calls = 0)

\* C2: when the typed pair is a row of the table, typed as two lines, the
\* attempt is granted and, at exit, admin_panel has been called exactly
\* once (and never more than once on the way).
C2_StoredPairGranted ==
    (TwoLines /\ StoredPairEntered) =>
        /\ pc # "crashed"
        /\ admin_calls <= 1
        /\ (pc = "verified" => verify_ret)
        /\ (Returned => ret)
        /\ (pc = "exit" => admin_calls = 1)

C2_Witness ==
    /\ TwoLines /\ StoredPairEntered
    /\ pc = "exit" /\ ret /\ admin_calls = 1

\* C3: a first line of 32 bytes or more is rejected at the read: no
\* truncated name is handed to the verification, nothing reaches the
\* password buffer, the table is not searched, admin_panel is not called.
C3_LongNameRejected ==
    Len(Line1) >= MAX_USERNAME_LENGTH =>
        /\ verify_args = <<>>
        /\ (PastReads => entered_password = Rep(NUL, MAX_PASSWORD_LENGTH))
        /\ lookups = 0
        /\ admin_calls = 0

\* C4: no printf call takes its format from the entered text, and the
\* success message shows the entered name byte for byte.
C4_NameOnlyAsData ==
    /\ \A i \in 1..Len(printf_fmts) : printf_fmts[i] = "literal"
    /\ pc # "crashed"
    /\ (pc = "returned" /\ ret) =>
           stdout = STR_ENTER_USERNAME \o STR_ENTER_PASSWORD \o STR_RULE \o
                    STR_MATCHED \o CStr(entered_name) \o STR_RULE

\* C5: when authenticate_admin returns, every byte of both buffers is 0.
C5_BuffersWipedOnReturn ==
    pc = "returned" =>
        /\ entered_name = Rep(NUL, MAX_USERNAME_LENGTH)
        /\ entered_password = Rep(NUL, MAX_PASSWORD_LENGTH)

\* C6: the lookup selects a row only when the name it was given equals
\* the row's stored name over its full length.
C6_ExactLookup ==
    found # 0 => verify_args[1] = database[found].username

\* C7: admin_panel is called only after verify_user_password returned
\* true for the entered name and password and authenticate_admin
\* returned true; never after a failed attempt.
C7_PanelOnlyWhenGranted ==
    admin_calls > 0 =>
        /\ verify_calls = 1
        /\ verify_ret
        /\ verify_args = << CStr(entered_name), CStr(entered_password) >>
        /\ ret
        /\ admin_calls = 1

C7_Witness ==
    /\ pc = "exit" /\ admin_calls = 1
    /\ verify_calls = 1 /\ verify_ret

\* C8: every failed attempt emits the same output: whatever other input
\* also fails, its stdout and stderr are those of this attempt.
C8_SameFailureOutput ==
    (pc = "exit" /\ ~ret) =>
        \A s \in InputStreams :
            AttemptOf(s).failed =>
                /\ AttemptOf(s).stdout = stdout
                /\ AttemptOf(s).stderr = stderr

\* the call of verify_user_password is over and had two strings
VerifiedStrings ==
    /\ pc = "verified"
    /\ verify_args[1] # NULL
    /\ verify_args[2] # NULL

\* the call ended at the length test: message, no search, false
RejectedAsInvalid ==
    /\ ~verify_ret
    /\ lookups = 0
    /\ stderr = STR_ERR_LENGTH

\* C9 as stated: a length of 0 or of max-1 (31) and more, of either
\* string, is rejected as invalid without a search.
C9_RejectsFromMaxMinusOne ==
    (/\ VerifiedStrings
     /\ \E a \in 1..2 : \/ Len(verify_args[a]) = 0
                        \/ Len(verify_args[a]) >= MAX_USERNAME_LENGTH - 1)
    => RejectedAsInvalid

\* C9 amended: a length of 0 or of max (32) and more, of either string,
\* is rejected as invalid without a search; with both lengths in 1..31,
\* 31 included, the call is not rejected as invalid and the table is
\* searched.
C9_RejectsFromMax ==
    VerifiedStrings =>
        IF \E a \in 1..2 : \/ Len(verify_args[a]) = 0
                           \/ Len(verify_args[a]) >= MAX_USERNAME_LENGTH
        THEN RejectedAsInvalid
        ELSE stderr = <<>> /\ lookups >= 1

C9_Witness ==
    /\ VerifiedStrings
    /\ Len(verify_args[1]) = MAX_USERNAME_LENGTH
    /\ Len(verify_args[2]) = MAX_PASSWORD_LENGTH - 1
    /\ RejectedAsInvalid

\* C10: when the username read or the password read is empty (a bare
\* newline, or nothing before the end of the input), the attempt is
\* rejected: the table is not searched and admin_panel is not called.
C10_EmptyReadRejected ==
    (/\ PastReads
     /\ \/ CStr(entered_name) \in { <<>>, <<NL>> }
        \/ CStr(entered_password) = <<>>)
    => (lookups = 0 /\ ~verify_ret /\ ~ret /\ admin_calls = 0)

====
